---- MODULE Spec2Model ----
(***************************************************************************)
(* Session store and HTTP client wrapper of the bookvenue client.          *)
(*                                                                         *)
(* The repository holds two AuthProvider implementations                   *)
(* (src/contexts/AuthContext.tsx and src/unnamed/part_000) and three       *)
(* booking client modules (src/api/bookingApi.ts, src/unnamed/part_001,    *)
(* src/unnamed/part_002).  The variable `provider` says which AuthProvider *)
(* is mounted, `hModule` which client module issued the current request.   *)
(*                                                                         *)
(* Every `await` of the source is a step boundary: an async function is    *)
(* modelled by one action for the synchronous prefix of the call and one   *)
(* action per continuation.  AsyncStorage calls may reject; the choice is  *)
(* drawn with \E ok \in BOOLEAN.                                           *)
(***************************************************************************)
EXTENDS Naturals, Sequences, FiniteSets

\* ------------------------------------------------------------------ bounds
\* Pending `setTimeout(() => setLoading(false), 100)` callbacks tracked.
MaxTimers == 2

\* ------------------------------------------------------------- data model
\* Fields of the User interface that the model tracks.
Keys == {"name", "email", "phone"}
KeyOrder == <<"name", "email", "phone">>
Vals == {"a", "b"}
\* A field that is not present on the object.
Missing == "undefined"

\* User objects; a field may be missing on objects built from backend data.
Users == [Keys -> Vals \cup {Missing}]

\* `User | null` and `string | null` are modelled as sequences of length <= 1.
None == <<>>
Some(x) == <<x>>

mkUser(n, e, p) == [name |-> n, email |-> e, phone |-> p]

\* ------------------------------------------------------------------- JSON
\* A JSON text is a sequence of tokens: key, value, key, value, ...
RECURSIVE StringifyFrom(_, _)
StringifyFrom(u, i) ==
    IF i > Len(KeyOrder) THEN <<>>
    ELSE LET k == KeyOrder[i]
         IN  IF u[k] = Missing THEN StringifyFrom(u, i + 1)
             ELSE <<k, u[k]>> \o StringifyFrom(u, i + 1)

\* JSON.stringify(user): fields in insertion order, undefined fields dropped.
JSONstringify(u) == StringifyFrom(u, 1)

\* A stored text that is not JSON.
CorruptText == <<"{">>

\* JSON.parse throws on a text that is not well formed.
JSONparseThrows(s) ==
    \/ Len(s) % 2 # 0
    \/ \E i \in 1..Len(s) : i % 2 = 1 /\ s[i] \notin Keys

\* JSON.parse(text) of a well-formed text: the last occurrence of a key wins.
JSONparse(s) ==
    [k \in Keys |->
        LET idx == {i \in 1..Len(s) : i % 2 = 1 /\ s[i] = k}
        IN  IF idx = {} THEN Missing
            ELSE s[(CHOOSE i \in idx : \A j \in idx : j <= i) + 1]]

\* --------------------------------------------------------------- inputs
UserA == mkUser("a", "a", "a")
UserB == mkUser("b", "b", "b")
\* Candidate sessions handed to login().
LoginUsers == {UserA, UserB}
\* The opaque bearer string.
Tok == <<"t", "k">>
\* Contents of the 'user' key found at process start.
InitialUserItems == {None, Some(CorruptText), Some(JSONstringify(UserA)),
                     Some(JSONstringify(UserB))}
InitialTokenItems == {None, Some(Tok)}
\* Partial<User> arguments of updateUser / fields carried by the FormData.
Partials == {mkUser(Missing, "b", Missing), mkUser(Missing, "a", Missing),
             mkUser("b", Missing, Missing), mkUser(Missing, Missing, "b")}
\* Profiles the backend may answer with (getProfile, updateProfile).
Profiles == {mkUser("b", "b", "a"), mkUser("a", "b", Missing)}
Providers == {"AuthContext", "part_000"}
Modules == {"bookingApi", "part_001", "part_002"}
Statuses == {200, 401, 500}

\* ------------------------------------------------- booking facade: values
\* A JavaScript value as the booking modules see it: its typeof-like tag t,
\* its characters s (a string's text, a number's decimal digits) and its
\* elements a (an array's entries, each a tag and characters).
JSVal(t, s, a) == [t |-> t, s |-> s, a |-> a]
Undefined == JSVal("undefined", <<>>, <<>>)
Null == JSVal("null", <<>>, <<>>)
Str(s) == JSVal("string", s, <<>>)
Num(digits) == JSVal("number", digits, <<>>)
Arr(a) == JSVal("array", <<>>, a)
Obj == JSVal("object", <<>>, <<>>)
Elem(t, s) == [t |-> t, s |-> s]

\* ToBoolean, as `if (x)`, `!x` and `x || y` apply it.
Truthy(v) ==
    CASE v.t \in {"undefined", "null"} -> FALSE
      [] v.t = "string" -> v.s # <<>>
      [] v.t = "number" -> v.s # <<"0">>
      [] OTHER -> TRUE

\* String literals of the source.
AdminBase == <<"https://admin.bookvenue.app/">>
StockImage == <<"https://images.pexels.com/photos/1263426/pexels-photo-1263426.jpeg?auto=compress&cs=tinysrgb&w=1260&h=750&dpr=2">>
Pending == <<"p", "e", "n", "d", "i", "n", "g">>
Confirmed == <<"c", "o", "n", "f", "i", "r", "m", "e", "d">>
Cancelled == <<"c", "a", "n", "c", "e", "l", "l", "e", "d">>
BookingNotFound == <<"Booking not found">>
NoText == <<>>

\* A raw booking of /my-bookings: the fields the modules read.
RawBooking(images, facilityImage, status, slots) ==
    [images |-> images, facility_image |-> facilityImage, status |-> status,
     slots |-> slots]
NoSlots == [t |-> "undefined", a |-> <<>>]
Slots(a) == [t |-> "array", a |-> a]
Slot(startTime, endTime) == [start_time |-> startTime, end_time |-> endTime]

\* A raw booking of /booking/{id}: the fields getBookingById reads.
RawById(status, venueImage, featuredImage) ==
    [status |-> status, venue_image |-> venueImage,
     featured_image |-> featuredImage]
EmptyObject == RawById(Undefined, Undefined, Undefined)

\* response.data: nothing ("" for an empty body), null, or an object with
\* an optional bookings field, an optional booking field and own fields.
NoBookings == [t |-> "undefined", a |-> <<>>]
NullBookings == [t |-> "null", a |-> <<>>]
Bookings(a) == [t |-> "array", a |-> a]
NoBooking == [t |-> "undefined", r |-> EmptyObject]
NullBooking == [t |-> "null", r |-> EmptyObject]
Booking(r) == [t |-> "object", r |-> r]
Body(t, bookings, booking, own) ==
    [t |-> t, bookings |-> bookings, booking |-> booking, own |-> own]
EmptyBody == Body("empty", NoBookings, NoBooking, EmptyObject)
NullBody == Body("null", NoBookings, NoBooking, EmptyObject)
ObjectBody(bookings, booking, own) == Body("object", bookings, booking, own)

\* An HTTP exchange: status 0 when no response arrived, the body of a 2xx
\* response, the message field of an error response (NoText when absent).
Response(status, body, message) ==
    [status |-> status, body |-> body, message |-> message]

NoCall == [module |-> "none", op |-> "none",
           resp |-> Response(0, EmptyBody, NoText), text |-> NoText]
NoResult == [kind |-> "pending", value |-> <<>>, raw |-> FALSE,
             message |-> NoText, text |-> NoText]

VARIABLES
    provider,   \* which AuthProvider is mounted
    user,       \* useState<User | null>
    loading,    \* useState(true): loading / isLoading
    store,      \* AsyncStorage: [user, token], each None or Some(text)
    timers,     \* pending setTimeout(() => setLoading(false), 100) callbacks
    rPc, rUser, \* loadStoredUser: position, storedUser read so far
    lPc, lArg,  \* login: position, userData
    oPc,        \* logout: position
    uPc, uArg, uNew,  \* updateUserProfile / updateUser: position, argument, updatedUser
    fPc, fNew,  \* refreshUser: position, userData
    hPc, hModule, hAuth,  \* booking request: position, module, Authorization header set
    hist,       \* the most recently started operation and the state it started from
    call,       \* booking facade: the call made and the exchange it sees
    result      \* booking facade: what the call returned or threw

vars == <<provider, user, loading, store, timers, rPc, rUser, lPc, lArg, oPc,
          uPc, uArg, uNew, fPc, fNew, hPc, hModule, hAuth, hist, call, result>>

authVars == <<rPc, rUser, lPc, lArg, oPc, uPc, uArg, uNew, fPc, fNew>>
httpVars == <<hPc, hModule, hAuth>>
sessionVars == <<provider, user, loading, store, timers, authVars, httpVars,
                 hist>>
facadeVars == <<call, result>>

\* ----------------------------------------------------------- bookkeeping
Snapshot == [user |-> user, store |-> store, loading |-> loading]

\* Record of an operation that has just been called.
Begin(op, arg) ==
    [op |-> op, arg |-> arg, phase |-> "running", pre |-> Snapshot,
     requested |-> FALSE, wrote |-> FALSE, fault |-> FALSE,
     fetchFailed |-> FALSE, fetched |-> None, status |-> 0,
     clean |-> hist.clean]

NoArg == <<>>

Returned(h) == [h EXCEPT !.phase = "returned"]
Threw(h) == [h EXCEPT !.phase = "threw"]
\* An AsyncStorage call was rejected: in this operation (fault), and so in
\* this run (clean).
Fault(h) == [h EXCEPT !.fault = TRUE, !.clean = FALSE]
Wrote(h) == [h EXCEPT !.wrote = TRUE]
Requested(h) == [h EXCEPT !.requested = TRUE]

\* Delayed setLoading(false) callbacks pending, and those the suspended
\* login, logout and refreshUser calls may still schedule.
ResetsDue ==
    timers + (IF lPc # "idle" THEN 1 ELSE 0)
           + (IF oPc # "idle" THEN 1 ELSE 0)
           + (IF fPc \notin {"idle", "logout"} THEN 1 ELSE 0)

\* No async function of the provider or request of a client is suspended.
Quiescent ==
    /\ rPc = "done"
    /\ lPc = "idle"
    /\ oPc = "idle"
    /\ uPc = "idle"
    /\ fPc = "idle"
    /\ hPc = "idle"

Init ==
    /\ provider \in Providers
    /\ user = None
    /\ loading = TRUE
    /\ store \in [user : InitialUserItems, token : InitialTokenItems]
    /\ timers = 0
    /\ rPc = "mount" /\ rUser = None
    /\ lPc = "idle" /\ lArg = None
    /\ oPc = "idle"
    /\ uPc = "idle" /\ uArg = None /\ uNew = None
    /\ fPc = "idle" /\ fNew = None
    /\ hPc = "idle" /\ hModule = "none" /\ hAuth = FALSE
    /\ hist = [op |-> "none", arg |-> NoArg, phase |-> "returned",
               pre |-> [user |-> None, store |-> store, loading |-> TRUE],
               requested |-> FALSE, wrote |-> FALSE, fault |-> FALSE,
               fetchFailed |-> FALSE, fetched |-> None, status |-> 0,
               clean |-> TRUE]
    /\ call = NoCall
    /\ result = NoResult


\* ------------------------------------------------------------ AsyncStorage
SetItem(s, key, text) == [s EXCEPT ![key] = Some(text)]
RemoveItem(s, key) == [s EXCEPT ![key] = None]

\* ------------------------------------------------- loadStoredUser (Restore)
\* AuthContext.tsx: `if (storedUser && storedToken)`.
RestoreAccepts_TokenTestInverted(storedUser, storedToken) ==
    storedUser # None /\ storedToken = None
RestoreAccepts(storedUser, storedToken) ==
    storedUser # None /\ storedToken # None

\* part_000: `if (storedUser)`.
RestoreAcceptsB(storedUser) == storedUser # None

\* `finally { setLoading(false); }`: the loading flag when loadStoredUser
\* ends, whether or not the try block threw.
RestoreFinally_AtEndOfTry(threw) == IF threw THEN loading ELSE FALSE
RestoreFinally(threw) == FALSE

\* useEffect(() => { loadStoredUser(); }, []): runs to the first await.
RestoreStart ==
    /\ rPc = "mount"
    /\ loading' = TRUE
    /\ rPc' = "getUser"
    /\ hist' = Begin("restore", NoArg)
    /\ UNCHANGED <<facadeVars, provider, user, store, timers, rUser, lPc, lArg, oPc,
                   uPc, uArg, uNew, fPc, fNew, httpVars>>

\* AuthContext.tsx: `await AsyncStorage.getItem('user')` settles.
RestoreReadUser ==
    /\ provider = "AuthContext"
    /\ rPc = "getUser"
    /\ \E ok \in BOOLEAN :
         IF ok
         THEN /\ rUser' = store.user
              /\ rPc' = "getToken"
              /\ hist' = hist
         ELSE /\ rUser' = rUser
              /\ rPc' = "rmUser"
              /\ hist' = Fault(hist)
    /\ UNCHANGED <<facadeVars, provider, user, loading, store, timers, lPc, lArg, oPc,
                   uPc, uArg, uNew, fPc, fNew, httpVars>>

\* AuthContext.tsx: `await AsyncStorage.getItem('token')` settles; the test,
\* JSON.parse and setUser follow without suspension; `finally` on return.
RestoreReadToken ==
    /\ provider = "AuthContext"
    /\ rPc = "getToken"
    /\ \E ok \in BOOLEAN :
         IF ~ok
         THEN /\ rPc' = "rmUser"
              /\ hist' = Fault(hist)
              /\ UNCHANGED <<user, loading>>
         ELSE IF RestoreAccepts(rUser, store.token)
              THEN IF JSONparseThrows(rUser[1])
                   THEN /\ rPc' = "rmUser"
                        /\ hist' = hist
                        /\ UNCHANGED <<user, loading>>
                   ELSE /\ user' = Some(JSONparse(rUser[1]))
                        /\ loading' = RestoreFinally(FALSE)
                        /\ rPc' = "done"
                        /\ hist' = Returned(hist)
              ELSE /\ user' = user
                   /\ loading' = RestoreFinally(FALSE)
                   /\ rPc' = "done"
                   /\ hist' = Returned(hist)
    /\ UNCHANGED <<facadeVars, provider, store, timers, rUser, lPc, lArg, oPc,
                   uPc, uArg, uNew, fPc, fNew, httpVars>>

\* AuthContext.tsx catch block: `await AsyncStorage.removeItem('user')`.
RestoreRemoveUser ==
    /\ rPc = "rmUser"
    /\ \E ok \in BOOLEAN :
         IF ok
         THEN /\ store' = RemoveItem(store, "user")
              /\ rPc' = "rmToken"
              /\ hist' = Wrote(hist)
              /\ loading' = loading
         ELSE /\ store' = store
              /\ rPc' = "done"
              /\ loading' = RestoreFinally(TRUE)
              /\ hist' = Threw(Fault(hist))
    /\ UNCHANGED <<facadeVars, provider, user, timers, rUser, lPc, lArg, oPc,
                   uPc, uArg, uNew, fPc, fNew, httpVars>>

\* AuthContext.tsx catch block: `await AsyncStorage.removeItem('token')`,
\* then `finally { setLoading(false) }`.
RestoreRemoveToken ==
    /\ rPc = "rmToken"
    /\ \E ok \in BOOLEAN :
         IF ok
         THEN /\ store' = RemoveItem(store, "token")
              /\ hist' = Returned(hist)
         ELSE /\ store' = store
              /\ hist' = Threw(Fault(hist))
    /\ rPc' = "done"
    /\ loading' = RestoreFinally(TRUE)
    /\ UNCHANGED <<facadeVars, provider, user, timers, rUser, lPc, lArg, oPc,
                   uPc, uArg, uNew, fPc, fNew, httpVars>>

\* part_000: `await AsyncStorage.getItem('user')` settles; parse, setUser,
\* a catch that only logs, and `finally { setIsLoading(false) }`.
RestoreReadUserB ==
    /\ provider = "part_000"
    /\ rPc = "getUser"
    /\ \E ok \in BOOLEAN :
         IF ~ok
         THEN /\ hist' = Returned(Fault(hist))
              /\ loading' = RestoreFinally(TRUE)
              /\ UNCHANGED <<user, rUser>>
         ELSE /\ rUser' = store.user
              /\ hist' = Returned(hist)
              /\ IF RestoreAcceptsB(store.user)
                 THEN IF JSONparseThrows(store.user[1])
                      THEN /\ user' = user
                           /\ loading' = RestoreFinally(TRUE)
                      ELSE /\ user' = Some(JSONparse(store.user[1]))
                           /\ loading' = RestoreFinally(FALSE)
                 ELSE /\ user' = user
                      /\ loading' = RestoreFinally(FALSE)
    /\ rPc' = "done"
    /\ UNCHANGED <<facadeVars, provider, store, timers, lPc, lArg, oPc,
                   uPc, uArg, uNew, fPc, fNew, httpVars>>

\* ------------------------------------------------------------------ login
\* The caller obtained the token and stored it under 'token' before it
\* calls login(userData); login itself never writes that key.
PreObtainedToken(s) == SetItem(s, "token", Tok)

\* In-memory user after `await AsyncStorage.setItem('user', ...)` rejected:
\* setUser(userData) comes after the await, so it has not run.
UserAfterLoginFailure_SetBeforeAwait(cur, cand) == cand
UserAfterLoginFailure(cur, cand) == cur

\* login(userData) up to `await AsyncStorage.setItem('user', ...)`.
LoginStart(u) ==
    /\ lPc = "idle"
    /\ ResetsDue < MaxTimers
    /\ store' = PreObtainedToken(store)
    /\ loading' = TRUE
    /\ lArg' = Some(u)
    /\ lPc' = "setItem"
    /\ hist' = [Begin("login", Some(u)) EXCEPT !.pre.store = store']
    /\ UNCHANGED <<facadeVars, provider, user, timers, rPc, rUser, oPc,
                   uPc, uArg, uNew, fPc, fNew, httpVars>>

\* The setItem settles: setUser and the delayed setLoading(false), or the
\* catch block: setLoading(false) and rethrow.
LoginSetItem ==
    /\ lPc = "setItem"
    /\ \E ok \in BOOLEAN :
         IF ok
         THEN /\ store' = SetItem(store, "user", JSONstringify(lArg[1]))
              /\ user' = lArg
              /\ timers' = timers + 1
              /\ loading' = loading
              /\ hist' = Returned(Wrote(hist))
         ELSE /\ store' = store
              /\ user' = UserAfterLoginFailure(user, lArg)
              /\ timers' = timers
              /\ loading' = FALSE
              /\ hist' = Threw(Fault(hist))
    /\ lPc' = "idle"
    /\ lArg' = None
    /\ UNCHANGED <<facadeVars, provider, rPc, rUser, oPc, uPc, uArg, uNew, fPc, fNew,
                   httpVars>>

\* The callback of `setTimeout(() => { setLoading(false); }, 100)`.
LoadingAfterReset_Stuck == TRUE
LoadingAfterReset == FALSE

TimerFire ==
    /\ timers > 0
    /\ timers' = timers - 1
    /\ loading' = LoadingAfterReset
    /\ UNCHANGED <<facadeVars, provider, user, store, authVars, httpVars, hist>>

\* ----------------------------------------------------------------- logout
\* Outcome of a logout for whoever awaits it: the UI, or refreshUser's
\* catch block (`await logout()`), which then returns or rethrows.
LogoutDone(h, threw) ==
    /\ oPc' = "idle"
    /\ fPc' = IF fPc = "logout" THEN "idle" ELSE fPc
    /\ hist' = IF threw THEN Threw(Fault(h)) ELSE Returned(Wrote(h))

\* logout() up to `await AsyncStorage.removeItem('user')`.
LogoutStart ==
    /\ oPc = "idle"
    /\ ResetsDue < MaxTimers
    /\ loading' = TRUE
    /\ oPc' = "rmUser"
    /\ hist' = Begin("logout", NoArg)
    /\ UNCHANGED <<facadeVars, provider, user, store, timers, rPc, rUser, lPc, lArg,
                   uPc, uArg, uNew, fPc, fNew, httpVars>>

\* AuthContext.tsx: removeItem('user') settles; next is removeItem('token').
LogoutRemoveUser ==
    /\ provider = "AuthContext"
    /\ oPc = "rmUser"
    /\ \E ok \in BOOLEAN :
         IF ok
         THEN /\ store' = RemoveItem(store, "user")
              /\ oPc' = "rmToken"
              /\ hist' = Wrote(hist)
              /\ UNCHANGED <<loading, fPc>>
         ELSE /\ store' = store
              /\ loading' = FALSE
              /\ LogoutDone(hist, TRUE)
    /\ UNCHANGED <<facadeVars, provider, user, timers, rPc, rUser, lPc, lArg,
                   uPc, uArg, uNew, fNew, httpVars>>

\* AuthContext.tsx: removeItem('token') settles; setUser(null), delayed
\* setLoading(false).
LogoutRemoveToken ==
    /\ provider = "AuthContext"
    /\ oPc = "rmToken"
    /\ \E ok \in BOOLEAN :
         IF ok
         THEN /\ store' = RemoveItem(store, "token")
              /\ user' = None
              /\ timers' = timers + 1
              /\ loading' = loading
              /\ LogoutDone(hist, FALSE)
         ELSE /\ store' = store
              /\ user' = user
              /\ timers' = timers
              /\ loading' = FALSE
              /\ LogoutDone(hist, TRUE)
    /\ UNCHANGED <<facadeVars, provider, rPc, rUser, lPc, lArg, uPc, uArg, uNew, fNew,
                   httpVars>>

\* part_000: removeItem('user') settles; setUser(null), delayed
\* setIsLoading(false).  The 'token' key is not touched.
LogoutRemoveUserB ==
    /\ provider = "part_000"
    /\ oPc = "rmUser"
    /\ \E ok \in BOOLEAN :
         IF ok
         THEN /\ store' = RemoveItem(store, "user")
              /\ user' = None
              /\ timers' = timers + 1
              /\ loading' = loading
              /\ LogoutDone(hist, FALSE)
         ELSE /\ store' = store
              /\ user' = user
              /\ timers' = timers
              /\ loading' = FALSE
              /\ LogoutDone(hist, TRUE)
    /\ UNCHANGED <<facadeVars, provider, rPc, rUser, lPc, lArg, uPc, uArg, uNew, fNew,
                   httpVars>>


\* ------------------------------------- updateUserProfile / updateUser
\* `await AsyncStorage.setItem('user', JSON.stringify(...))` after the
\* backend answered: the write is made whatever has happened to the session
\* since the request left.
StoredAfterResponse_OnlyWithToken(s, text) ==
    IF s.token = None THEN s ELSE SetItem(s, "user", text)
StoredAfterResponse(s, text) == SetItem(s, "user", text)

\* part_000: `{ ...user, ...userData }`.
Merge(u, p) == [k \in Keys |-> IF p[k] # Missing THEN p[k] ELSE u[k]]

\* AuthContext.tsx: updateUserProfile(formData) up to
\* `await authApi.updateProfile(formData)`.  There is no test of `user`.
UpdateStart(p) ==
    /\ provider = "AuthContext"
    /\ uPc = "idle"
    /\ uArg' = Some(p)
    /\ uPc' = "api"
    /\ hist' = Requested(Begin("update", Some(p)))
    /\ UNCHANGED <<facadeVars, provider, user, loading, store, timers, rPc, rUser, lPc,
                   lArg, oPc, uNew, fPc, fNew, httpVars>>

\* AuthContext.tsx: authApi.updateProfile settles with the backend's answer
\* or rejects; the catch block rethrows.
UpdateApi ==
    /\ uPc = "api"
    /\ \/ \E resp \in Profiles :
            /\ uNew' = Some(resp)
            /\ uPc' = "setItem"
            /\ uArg' = uArg
            /\ hist' = hist
       \/ /\ uNew' = None
          /\ uPc' = "idle"
          /\ uArg' = None
          /\ hist' = Threw([hist EXCEPT !.fetchFailed = TRUE])
    /\ UNCHANGED <<facadeVars, provider, user, loading, store, timers, rPc, rUser, lPc,
                   lArg, oPc, fPc, fNew, httpVars>>

\* part_000: updateUser(userData): `if (!user) return;`, the merge, up to
\* `await AsyncStorage.setItem('user', ...)`.
UpdateStartB(p) ==
    /\ provider = "part_000"
    /\ uPc = "idle"
    /\ IF user = None
       THEN /\ hist' = Returned(Begin("update", Some(p)))
            /\ UNCHANGED <<uPc, uArg, uNew>>
       ELSE /\ uNew' = Some(Merge(user[1], p))
            /\ uArg' = Some(p)
            /\ uPc' = "setItem"
            /\ hist' = Begin("update", Some(p))
    /\ UNCHANGED <<facadeVars, provider, user, loading, store, timers, rPc, rUser, lPc,
                   lArg, oPc, fPc, fNew, httpVars>>

\* Both providers: `await AsyncStorage.setItem('user', JSON.stringify(
\* updatedUser))` settles; setUser(updatedUser), or the catch rethrows.
UpdateSetItem ==
    /\ uPc = "setItem"
    /\ \E ok \in BOOLEAN :
         IF ok
         THEN /\ store' = StoredAfterResponse(store, JSONstringify(uNew[1]))
              /\ user' = uNew
              /\ hist' = Returned(Wrote(hist))
         ELSE /\ store' = store
              /\ user' = user
              /\ hist' = Threw(Fault(hist))
    /\ uPc' = "idle"
    /\ uArg' = None
    /\ uNew' = None
    /\ UNCHANGED <<facadeVars, provider, loading, timers, rPc, rUser, lPc, lArg, oPc,
                   fPc, fNew, httpVars>>

\* ------------------------------------------------------------ refreshUser
\* The catch block of refreshUser: `await logout()`, which runs logout to
\* its first await.
RefreshCatch_Swallow(h) ==
    /\ fPc' = "idle"
    /\ hist' = Returned(h)
    /\ UNCHANGED <<loading, oPc>>
RefreshCatch(h) ==
    /\ oPc = "idle"
    /\ fPc' = "logout"
    /\ loading' = TRUE
    /\ oPc' = "rmUser"
    /\ hist' = h

\* The session refreshUser stores and adopts: `userData` as fetched, whatever
\* the current user is.
RefreshedUser_MergedOverCurrent(cur, fetched) ==
    IF cur = None THEN fetched ELSE Some(Merge(cur[1], fetched[1]))
RefreshedUser(cur, fetched) == fetched

\* refreshUser() up to `await AsyncStorage.getItem('token')`.
RefreshStart ==
    /\ provider = "AuthContext"
    /\ fPc = "idle"
    /\ oPc = "idle"
    /\ ResetsDue < MaxTimers
    /\ fPc' = "getToken"
    /\ hist' = Begin("refresh", NoArg)
    /\ UNCHANGED <<facadeVars, provider, user, loading, store, timers, rPc, rUser, lPc,
                   lArg, oPc, uPc, uArg, uNew, fNew, httpVars>>

\* getItem('token') settles: `if (!token) return;`, else up to
\* `await authApi.getProfile()`.
RefreshReadToken ==
    /\ fPc = "getToken"
    /\ \E ok \in BOOLEAN :
         IF ~ok
         THEN RefreshCatch(Fault(hist))
         ELSE IF store.token = None
              THEN /\ fPc' = "idle"
                   /\ hist' = Returned(hist)
                   /\ UNCHANGED <<loading, oPc>>
              ELSE /\ fPc' = "api"
                   /\ hist' = Requested(hist)
                   /\ UNCHANGED <<loading, oPc>>
    /\ UNCHANGED <<facadeVars, provider, user, store, timers, rPc, rUser, lPc,
                   lArg, uPc, uArg, uNew, fNew, httpVars>>

\* authApi.getProfile() settles with the backend's profile or rejects.
RefreshApi ==
    /\ fPc = "api"
    /\ \/ \E resp \in Profiles :
            /\ fNew' = Some(resp)
            /\ fPc' = "setItem"
            /\ hist' = [hist EXCEPT !.fetched = Some(resp)]
            /\ UNCHANGED <<loading, oPc>>
       \/ /\ fNew' = fNew
          /\ RefreshCatch([hist EXCEPT !.fetchFailed = TRUE])
    /\ UNCHANGED <<facadeVars, provider, user, store, timers, rPc, rUser, lPc,
                   lArg, uPc, uArg, uNew, httpVars>>

\* `await AsyncStorage.setItem('user', JSON.stringify(userData))` settles;
\* setUser(userData), or the catch block.
RefreshSetItem ==
    /\ fPc = "setItem"
    /\ \E ok \in BOOLEAN :
         IF ok
         THEN /\ store' = StoredAfterResponse(
                             store, JSONstringify(RefreshedUser(user, fNew)[1]))
              /\ user' = RefreshedUser(user, fNew)
              /\ fPc' = "idle"
              /\ hist' = Returned(Wrote(hist))
              /\ UNCHANGED <<loading, oPc>>
         ELSE /\ store' = store
              /\ user' = user
              /\ RefreshCatch(Fault(hist))
    /\ fNew' = None
    /\ UNCHANGED <<facadeVars, provider, timers, rPc, rUser, lPc, lArg, uPc, uArg, uNew,
                   httpVars>>

\* ------------------------------------------------- booking client modules
\* bookingApi.ts and part_001 install a request interceptor on their axios
\* instance; part_002 calls fetch() with a Content-Type header only.
HasRequestInterceptor(m) == m \in {"bookingApi", "part_001"}

\* Only part_001 installs a response interceptor (the 401 handler).
HasResponseInterceptor(m) == m = "part_001"

\* A facade operation of module m issues its request.
HttpStart(m) ==
    /\ hPc = "idle"
    /\ hModule' = m
    /\ hAuth' = FALSE
    /\ IF HasRequestInterceptor(m)
       THEN /\ hPc' = "reqToken"
            /\ hist' = Begin("http", NoArg)
       ELSE /\ hPc' = "inflight"
            /\ hist' = Requested(Begin("http", NoArg))
    /\ UNCHANGED <<facadeVars, provider, user, loading, store, timers, authVars>>

\* Request interceptor: `await AsyncStorage.getItem('token')`, then the
\* Authorization header when the token is truthy; the request is dispatched.
HttpReadToken ==
    /\ hPc = "reqToken"
    /\ \E ok \in BOOLEAN :
         IF ok
         THEN /\ hAuth' = (store.token # None)
              /\ hPc' = "inflight"
              /\ hist' = Requested(hist)
         ELSE /\ hAuth' = hAuth
              /\ hPc' = "idle"
              /\ hist' = Threw(Fault(hist))
    /\ UNCHANGED <<facadeVars, provider, user, loading, store, timers, authVars, hModule>>

\* The response arrives.  A 401 enters part_001's response interceptor; any
\* other failure, and a 401 in the other modules, is rethrown by the facade.
HttpResponse ==
    /\ hPc = "inflight"
    /\ \E st \in Statuses :
         /\ IF st = 200
            THEN /\ hPc' = "idle"
                 /\ hist' = Returned([hist EXCEPT !.status = st])
            ELSE IF st = 401 /\ HasResponseInterceptor(hModule)
                 THEN /\ hPc' = "rmToken"
                      /\ hist' = [hist EXCEPT !.status = st]
                 ELSE /\ hPc' = "idle"
                      /\ hist' = Threw([hist EXCEPT !.status = st])
    /\ UNCHANGED <<facadeVars, provider, user, loading, store, timers, authVars, hModule,
                   hAuth>>

\* part_001 response interceptor: `await AsyncStorage.removeItem('token')`.
HttpClearToken ==
    /\ hPc = "rmToken"
    /\ \E ok \in BOOLEAN :
         IF ok
         THEN /\ store' = RemoveItem(store, "token")
              /\ hPc' = "rmUser"
              /\ hist' = Wrote(hist)
         ELSE /\ store' = store
              /\ hPc' = "idle"
              /\ hist' = Threw(Fault(hist))
    /\ UNCHANGED <<facadeVars, provider, user, loading, timers, authVars, hModule, hAuth>>

\* part_001 response interceptor: `await AsyncStorage.removeItem('user')`,
\* then `return Promise.reject(error)`.
HttpClearUser ==
    /\ hPc = "rmUser"
    /\ \E ok \in BOOLEAN :
         IF ok
         THEN /\ store' = RemoveItem(store, "user")
              /\ hist' = Threw(hist)
         ELSE /\ store' = store
              /\ hist' = Threw(Fault(hist))
    /\ hPc' = "idle"
    /\ UNCHANGED <<facadeVars, provider, user, loading, timers, authVars, hModule, hAuth>>

\* ------------------------------------------------------- specification
\* The UI starts an operation only when none is suspended; continuations
\* and timer callbacks run whenever they are due.
Next ==
    \/ RestoreStart
    \/ RestoreReadUser
    \/ RestoreReadToken
    \/ RestoreRemoveUser
    \/ RestoreRemoveToken
    \/ RestoreReadUserB
    \/ (Quiescent /\ \E u \in LoginUsers : LoginStart(u))
    \/ LoginSetItem
    \/ TimerFire
    \/ (Quiescent /\ LogoutStart)
    \/ LogoutRemoveUser
    \/ LogoutRemoveToken
    \/ LogoutRemoveUserB
    \/ (Quiescent /\ \E p \in Partials : UpdateStart(p))
    \/ UpdateApi
    \/ (Quiescent /\ \E p \in Partials : UpdateStartB(p))
    \/ UpdateSetItem
    \/ (Quiescent /\ RefreshStart)
    \/ RefreshReadToken
    \/ RefreshApi
    \/ RefreshSetItem
    \/ (Quiescent /\ \E m \in Modules : HttpStart(m))
    \/ HttpReadToken
    \/ HttpResponse
    \/ HttpClearToken
    \/ HttpClearUser

Spec == Init /\ [][Next]_vars

\* The steps of loadStoredUser.
RestoreNext ==
    \/ RestoreStart
    \/ RestoreReadUser
    \/ RestoreReadToken
    \/ RestoreRemoveUser
    \/ RestoreRemoveToken
    \/ RestoreReadUserB

\* The mount effect runs and every AsyncStorage promise settles.
FairSpec == Spec /\ WF_vars(RestoreNext)

\* Nothing serialises logout with updateUserProfile and refreshUser: once
\* the provider has mounted, the user may trigger logout while one of them
\* is suspended at an await.  The other calls start as in Next; booking
\* requests are left out.
RaceNext ==
    \/ RestoreStart
    \/ RestoreReadUser
    \/ RestoreReadToken
    \/ RestoreRemoveUser
    \/ RestoreRemoveToken
    \/ RestoreReadUserB
    \/ (Quiescent /\ \E u \in LoginUsers : LoginStart(u))
    \/ LoginSetItem
    \/ TimerFire
    \/ (rPc = "done" /\ lPc = "idle" /\ LogoutStart)
    \/ LogoutRemoveUser
    \/ LogoutRemoveToken
    \/ LogoutRemoveUserB
    \/ (Quiescent /\ \E p \in Partials : UpdateStart(p))
    \/ UpdateApi
    \/ (Quiescent /\ \E p \in Partials : UpdateStartB(p))
    \/ UpdateSetItem
    \/ (Quiescent /\ RefreshStart)
    \/ RefreshReadToken
    \/ RefreshApi
    \/ RefreshSetItem

RaceSpec == Init /\ [][RaceNext]_vars

TypeOK ==
    /\ provider \in Providers
    /\ loading \in BOOLEAN
    /\ timers \in 0..MaxTimers
    /\ user \in {None} \cup {Some(u) : u \in Users}
    /\ store.token \in {None, Some(Tok)}
    /\ store.user \in {None, Some(CorruptText)} \cup {Some(JSONstringify(u)) : u \in Users}
    /\ hModule \in Modules \cup {"none"}
    /\ hAuth \in BOOLEAN


\* ------------------------------------------------ booking facade: strings
DigitChars == <<"0", "1", "2", "3", "4", "5", "6", "7", "8", "9">>
IsDigit(c) == \E i \in 1..Len(DigitChars) : DigitChars[i] = c
DigitValue(c) == (CHOOSE i \in 1..Len(DigitChars) : DigitChars[i] = c) - 1

UpperChars == <<"A", "B", "C", "D", "E", "F", "G", "H", "I", "J", "K", "L", "M",
                "N", "O", "P", "Q", "R", "S", "T", "U", "V", "W", "X", "Y", "Z">>
LowerChars == <<"a", "b", "c", "d", "e", "f", "g", "h", "i", "j", "k", "l", "m",
                "n", "o", "p", "q", "r", "s", "t", "u", "v", "w", "x", "y", "z">>
LowerChar(c) ==
    IF \E i \in 1..Len(UpperChars) : UpperChars[i] = c
    THEN LowerChars[CHOOSE i \in 1..Len(UpperChars) : UpperChars[i] = c]
    ELSE c

\* String.prototype.toLowerCase
toLowerCase(str) == [i \in 1..Len(str) |-> LowerChar(str[i])]

\* img.replace(/\\/g, '/')
ReplaceBackslashes(str) ==
    [i \in 1..Len(str) |-> IF str[i] = "\\" THEN "/" ELSE str[i]]

\* String.prototype.startsWith
startsWith(str, prefix) ==
    /\ Len(str) >= Len(prefix)
    /\ SubSeq(str, 1, Len(prefix)) = prefix

\* Array.prototype.join over strings.
RECURSIVE join(_, _)
join(strs, sep) ==
    IF strs = <<>> THEN <<>>
    ELSE IF Len(strs) = 1 THEN strs[1]
    ELSE strs[1] \o sep \o join(Tail(strs), sep)

\* Number.prototype.toString of a natural number.
RECURSIVE NatToString(_)
NatToString(n) ==
    IF n < 10 THEN <<DigitChars[n + 1]>>
    ELSE NatToString(n \div 10) \o <<DigitChars[(n % 10) + 1]>>

\* String.prototype.padStart(width, '0')
RECURSIVE padStart(_, _)
padStart(str, width) ==
    IF Len(str) >= width THEN str ELSE padStart(<<"0">> \o str, width)

\* ToString of a value, as JSON.parse and template literals apply it.
ElemToString(e) ==
    IF e.t \in {"string", "number"} THEN e.s
    ELSE IF e.t = "object"
         THEN <<"[", "o", "b", "j", "e", "c", "t", " ",
                "O", "b", "j", "e", "c", "t", "]">>
         ELSE <<>>
JSToString(v) ==
    CASE v.t \in {"string", "number"} -> v.s
      [] v.t = "array" ->
            join([i \in 1..Len(v.a) |-> ElemToString(v.a[i])], <<",">>)
      [] v.t = "object" -> ElemToString(Elem("object", <<>>))
      [] v.t = "null" -> <<"n", "u", "l", "l">>
      [] OTHER -> <<"u", "n", "d", "e", "f", "i", "n", "e", "d">>

\* --------------------------------------------- booking facade: JSON.parse
\* JSON.parse over the texts drawn: strings with the escapes \\ \" \/,
\* unsigned integers, null, {} and arrays; anything else is a SyntaxError.
ScanFail == [ok |-> FALSE, v |-> Undefined, next |-> 0]
ScanOk(v, next) == [ok |-> TRUE, v |-> v, next |-> next]

RECURSIVE ScanString(_, _, _)
ScanString(txt, i, acc) ==
    IF i > Len(txt) THEN ScanFail
    ELSE IF txt[i] = "\"" THEN ScanOk(Str(acc), i + 1)
    ELSE IF txt[i] = "\\"
         THEN IF i + 1 <= Len(txt) /\ txt[i + 1] \in {"\\", "\"", "/"}
              THEN ScanString(txt, i + 2, Append(acc, txt[i + 1]))
              ELSE ScanFail
         ELSE ScanString(txt, i + 1, Append(acc, txt[i]))

RECURSIVE DigitRunEnd(_, _)
DigitRunEnd(txt, i) ==
    IF i <= Len(txt) /\ IsDigit(txt[i]) THEN DigitRunEnd(txt, i + 1) ELSE i

ScanNumber(txt, i) ==
    LET end == IF txt[i] = "0" THEN i + 1 ELSE DigitRunEnd(txt, i)
    IN  ScanOk(Num(SubSeq(txt, i, end - 1)), end)

ScanScalar(txt, i) ==
    IF txt[i] = "\"" THEN ScanString(txt, i + 1, <<>>)
    ELSE IF IsDigit(txt[i]) THEN ScanNumber(txt, i)
    ELSE IF i + 3 <= Len(txt) /\ SubSeq(txt, i, i + 3) = <<"n", "u", "l", "l">>
         THEN ScanOk(Null, i + 4)
    ELSE IF i + 1 <= Len(txt) /\ SubSeq(txt, i, i + 1) = <<"{", "}">>
         THEN ScanOk(Obj, i + 2)
    ELSE ScanFail

RECURSIVE ScanValue(_, _)
RECURSIVE ScanElements(_, _, _)
ScanElements(txt, i, acc) ==
    LET r == ScanValue(txt, i)
        elems == Append(acc, Elem(r.v.t, r.v.s))
    IN  IF ~r.ok \/ r.next > Len(txt) THEN ScanFail
        ELSE IF txt[r.next] = "," THEN ScanElements(txt, r.next + 1, elems)
        ELSE IF txt[r.next] = "]" THEN ScanOk(Arr(elems), r.next + 1)
        ELSE ScanFail

ScanValue(txt, i) ==
    IF i > Len(txt) THEN ScanFail
    ELSE IF txt[i] = "["
         THEN IF i + 1 <= Len(txt) /\ txt[i + 1] = "]"
              THEN ScanOk(Arr(<<>>), i + 2)
              ELSE ScanElements(txt, i + 1, <<>>)
         ELSE ScanScalar(txt, i)

JSONparseValueThrows(txt) ==
    LET r == ScanValue(txt, 1) IN ~r.ok \/ r.next # Len(txt) + 1
JSONparseValue(txt) == ScanValue(txt, 1).v


\* --------------------------------------------- booking facade: formatTime
\* /^\d{2}:\d{2}$/
IsHHMM(str) ==
    /\ Len(str) = 5
    /\ IsDigit(str[1]) /\ IsDigit(str[2]) /\ str[3] = ":"
    /\ IsDigit(str[4]) /\ IsDigit(str[5])

\* /^\d{2}:\d{2}:\d{2}$/
IsHHMMSS(str) ==
    /\ Len(str) = 8
    /\ IsHHMM(SubSeq(str, 1, 5))
    /\ str[6] = ":" /\ IsDigit(str[7]) /\ IsDigit(str[8])

\* parseInt(str): leading blanks and a sign are skipped, the longest run of
\* decimal digits is read, NaN when the run is empty.
RECURSIVE SkipBlanks(_, _)
SkipBlanks(str, i) ==
    IF i <= Len(str) /\ str[i] = " " THEN SkipBlanks(str, i + 1) ELSE i

RECURSIVE DigitsToNat(_)
DigitsToNat(digits) ==
    IF digits = <<>> THEN 0
    ELSE 10 * DigitsToNat(SubSeq(digits, 1, Len(digits) - 1))
         + DigitValue(digits[Len(digits)])

parseInt(str) ==
    LET b == SkipBlanks(str, 1)
        signed == b <= Len(str) /\ str[b] \in {"-", "+"}
        from == IF signed THEN b + 1 ELSE b
        to == DigitRunEnd(str, from)
    IN  [nan |-> to = from,
         negative |-> signed /\ str[b] = "-",
         magnitude |-> DigitsToNat(SubSeq(str, from, to - 1))]

\* hour.toString()
NumberToString(n) ==
    (IF n.negative /\ n.magnitude # 0 THEN <<"-">> ELSE <<>>)
        \o NatToString(n.magnitude)

\* formatTime of src/api/bookingApi.ts.
formatTime(timeString) ==
    IF timeString = <<>> THEN <<>>
    ELSE IF IsHHMM(timeString) THEN timeString
    ELSE IF IsHHMMSS(timeString) THEN SubSeq(timeString, 1, 5)
    ELSE IF ~parseInt(timeString).nan
         THEN padStart(NumberToString(parseInt(timeString)), 2)
                  \o <<":", "0", "0">>
    ELSE timeString

\* new Date(str) for a local date-time YYYY-MM-DDTHH:MM:SS; every other
\* text drawn is one no engine accepts, giving an Invalid Date.
IsLocalDateTime(str) ==
    /\ Len(str) = 19
    /\ \A i \in {1, 2, 3, 4, 6, 7, 9, 10} : IsDigit(str[i])
    /\ str[5] = "-" /\ str[8] = "-" /\ str[11] = "T"
    /\ IsHHMMSS(SubSeq(str, 12, 19))

InvalidDate == <<"Invalid Date">>

\* date.toLocaleTimeString('en-US', {hour: '2-digit', minute: '2-digit',
\* hour12: false}); an Invalid Date formats as "Invalid Date", it does not
\* throw.
toLocaleTimeString(str) ==
    IF IsLocalDateTime(str) THEN SubSeq(str, 12, 16) ELSE InvalidDate

\* formatTime of src/app/(tabs)/bookings.tsx.
formatTimeOnScreen(timeString) ==
    IF timeString = <<>> THEN <<>>
    ELSE IF IsHHMM(timeString) THEN timeString
    ELSE IF IsHHMMSS(timeString) THEN SubSeq(timeString, 1, 5)
    ELSE toLocaleTimeString(timeString)


\* ------------------------------------------ booking facade: normalisation
\* A booking as a list or by-id call hands it to the screens: the fields the
\* properties speak about.
Canonical(images, status, startTime, endTime) ==
    [images |-> images, status |-> status, startTime |-> startTime,
     endTime |-> endTime]

\* What a step of a try block gives: a value, or a thrown error.
Value(v) == [threw |-> FALSE, v |-> v]
Thrown == [threw |-> TRUE, v |-> Undefined]

StringElems(strs) == Arr([i \in 1..Len(strs) |-> Elem("string", strs[i])])
AllStrings(v) == \A i \in 1..Len(v.a) : v.a[i].t = "string"

\* getBookings, lines 64-85: images parsed inside try/catch, the featured
\* image put first, the stock image when the list is still empty.
FacilityImages(booking) ==
    LET text == JSToString(booking.images)
        parsed == JSONparseValue(text)
        fromImages ==
            IF ~Truthy(booking.images) \/ JSONparseValueThrows(text)
               \/ parsed.t # "array" \/ ~AllStrings(parsed)
            THEN <<>>
            ELSE [i \in 1..Len(parsed.a) |->
                     AdminBase \o ReplaceBackslashes(parsed.a[i].s)]
        withFeatured ==
            IF Truthy(booking.facility_image)
            THEN <<AdminBase \o JSToString(booking.facility_image)>> \o fromImages
            ELSE fromImages
    IN  StringElems(IF withFeatured = <<>> THEN <<StockImage>> ELSE withFeatured)

\* (booking.status || 'pending').toLowerCase(): a TypeError when the truthy
\* status is not a string.
BookingStatus(status) ==
    LET raw == IF Truthy(status) THEN status ELSE Str(Pending)
    IN  IF raw.t = "string" THEN Value(Str(toLowerCase(raw.s))) ELSE Thrown

\* getBookings, lines 94-110: the formatted times of the slots that have
\* one, joined with ', '.
RECURSIVE FormattedTimes(_, _)
FormattedTimes(slots, field) ==
    IF slots = <<>> THEN <<>>
    ELSE LET time == Head(slots)[field]
             rest == FormattedTimes(Tail(slots), field)
         IN  IF time # <<>> THEN <<formatTime(time)>> \o rest ELSE rest

SlotTimes(slots, field) ==
    IF slots.t = "array" /\ Len(slots.a) > 0
    THEN Str(join(FormattedTimes(slots.a, field), <<",", " ">>))
    ELSE Str(<<>>)

\* The callback of bookingsData.map in src/api/bookingApi.ts.
ProcessedBooking(booking) ==
    IF BookingStatus(booking.status).threw THEN Thrown
    ELSE Value(Canonical(FacilityImages(booking),
                         BookingStatus(booking.status).v,
                         SlotTimes(booking.slots, "start_time"),
                         SlotTimes(booking.slots, "end_time")))

\* The callback of response.data.bookings.map in src/unnamed/part_001:
\* images parsed inside try/catch, mapped to URLs outside it.
ProcessedBooking001(booking) ==
    LET images == booking.images
        parsedImages ==
            IF Truthy(images) /\ images.t = "string"
            THEN IF JSONparseValueThrows(images.s) THEN Arr(<<>>)
                 ELSE JSONparseValue(images.s)
            ELSE IF images.t = "array" THEN images ELSE Arr(<<>>)
    IN  IF parsedImages.t # "array" \/ ~AllStrings(parsedImages) THEN Thrown
        ELSE Value(Canonical(
                 StringElems([i \in 1..Len(parsedImages.a) |->
                     IF startsWith(parsedImages.a[i].s, <<"h", "t", "t", "p">>)
                     THEN parsedImages.a[i].s
                     ELSE AdminBase \o parsedImages.a[i].s]),
                 booking.status, Undefined, Undefined))

\* The callback of data.bookings.map in src/unnamed/part_002: JSON.parse is
\* not guarded.
ProcessedBooking002(booking) ==
    LET images == booking.images
    IN  IF images.t = "string"
        THEN IF JSONparseValueThrows(images.s) THEN Thrown
             ELSE Value(Canonical(JSONparseValue(images.s), booking.status,
                                  Undefined, Undefined))
        ELSE Value(Canonical(IF Truthy(images) THEN images ELSE Arr(<<>>),
                             booking.status, Undefined, Undefined))

Processed(module, booking) ==
    CASE module = "bookingApi" -> ProcessedBooking(booking)
      [] module = "part_001" -> ProcessedBooking001(booking)
      [] OTHER -> ProcessedBooking002(booking)

\* getBookingById of src/api/bookingApi.ts, lines 155-179.
VenueImage(booking) ==
    IF Truthy(booking.venue_image)
    THEN Value(Elem(booking.venue_image.t, booking.venue_image.s))
    ELSE IF Truthy(booking.featured_image)
    THEN IF booking.featured_image.t = "string"
         THEN Value(Elem("string",
                  AdminBase \o ReplaceBackslashes(booking.featured_image.s)))
         ELSE Thrown
    ELSE Value(Elem("string", StockImage))

BookingById(booking) ==
    IF VenueImage(booking).threw \/ BookingStatus(booking.status).threw
    THEN Thrown
    ELSE Value(Canonical(Arr(<<VenueImage(booking).v>>),
                         BookingStatus(booking.status).v,
                         Undefined, Undefined))

\* ---------------------------------------------- booking facade: outcomes
Returns(value) == [kind |-> "returned", value |-> value, raw |-> FALSE,
                   message |-> NoText, text |-> NoText]
ReturnsData == [kind |-> "returned", value |-> <<>>, raw |-> TRUE,
                message |-> NoText, text |-> NoText]
Throws(message) == [kind |-> "threw", value |-> <<>>, raw |-> FALSE,
                    message |-> message, text |-> NoText]
ReturnsText(text) == [kind |-> "returned", value |-> <<>>, raw |-> FALSE,
                      message |-> NoText, text |-> text]

\* validateStatus of axios and response.ok of fetch.
Successful(resp) == resp.status >= 200 /\ resp.status < 300

\* The fixed message of each catch block.
Fallback(module, op) ==
    CASE op = "list" -> <<"Failed to fetch bookings">>
      [] op = "getById" -> <<"Failed to fetch booking">>
      [] op = "create" -> <<"Failed to create booking">>
      [] op = "cancel" -> <<"Failed to cancel booking">>
      [] op = "paymentSuccess" /\ module = "part_001" ->
            <<"Failed to confirm payment">>
      [] OTHER -> <<"Failed to update payment status">>

\* throw new Error(error.response?.data?.message || '<fallback>') of the
\* axios modules; an error thrown inside the try block has no response.
Rethrown(module, op, resp, fromRequest) ==
    IF fromRequest /\ resp.status # 0 /\ resp.message # NoText
    THEN Throws(resp.message)
    ELSE Throws(Fallback(module, op))

\* What src/unnamed/part_002 throws: its own error for a response that is
\* not ok, the engine's for a failed fetch, a body that is not JSON, or a
\* property read of null or undefined.
NetworkError == <<"Network request failed">>
SyntaxError == <<"SyntaxError">>
TypeError == <<"TypeError">>
HttpError(resp) ==
    IF resp.status = 0 THEN Throws(NetworkError)
    ELSE Throws(<<"HTTP error! status: ">> \o NatToString(resp.status))

AnyThrown(module, raws) ==
    \E i \in 1..Len(raws) : Processed(module, raws[i]).threw
AllProcessed(module, raws) ==
    [i \in 1..Len(raws) |-> Processed(module, raws[i]).v]

\* getBookings of src/api/bookingApi.ts.
getBookings(resp) ==
    IF ~Successful(resp) THEN Rethrown("bookingApi", "list", resp, TRUE)
    ELSE IF resp.body.t # "object" THEN Returns(<<>>)
    ELSE LET bookingsData == IF resp.body.bookings.t = "array"
                             THEN resp.body.bookings.a ELSE <<>>
         IN  IF AnyThrown("bookingApi", bookingsData)
             THEN Rethrown("bookingApi", "list", resp, FALSE)
             ELSE Returns(AllProcessed("bookingApi", bookingsData))

\* getMyBookings of src/unnamed/part_001.
getMyBookings001(resp) ==
    IF ~Successful(resp) THEN Rethrown("part_001", "list", resp, TRUE)
    ELSE IF resp.body.t = "null" THEN Rethrown("part_001", "list", resp, FALSE)
    ELSE IF resp.body.t = "empty" \/ resp.body.bookings.t # "array"
         THEN Returns(<<>>)
    ELSE IF AnyThrown("part_001", resp.body.bookings.a)
         THEN Rethrown("part_001", "list", resp, FALSE)
    ELSE Returns(AllProcessed("part_001", resp.body.bookings.a))

\* getMyBookings of src/unnamed/part_002.
getMyBookings002(resp) ==
    IF ~Successful(resp) THEN HttpError(resp)
    ELSE IF resp.body.t = "empty" THEN Throws(SyntaxError)
    ELSE IF resp.body.t = "null" \/ resp.body.bookings.t # "array"
         THEN Throws(TypeError)
    ELSE IF AnyThrown("part_002", resp.body.bookings.a)
         THEN Throws(SyntaxError)
    ELSE Returns(AllProcessed("part_002", resp.body.bookings.a))

\* getBookingById of src/api/bookingApi.ts: `throw new Error('Booking not
\* found')` is inside the try block whose catch rethrows with the fallback.
getBookingById(resp) ==
    IF ~Successful(resp) THEN Rethrown("bookingApi", "getById", resp, TRUE)
    ELSE IF resp.body.t # "object"
         THEN Rethrown("bookingApi", "getById", resp, FALSE)
    ELSE LET booking == IF resp.body.booking.t = "object"
                        THEN resp.body.booking.r ELSE resp.body.own
         IN  IF BookingById(booking).threw
             THEN Rethrown("bookingApi", "getById", resp, FALSE)
             ELSE Returns(<<BookingById(booking).v>>)

\* The operations that hand response.data back as it is.
PassThrough(module, op, resp) ==
    IF module = "part_002"
    THEN IF ~Successful(resp) THEN HttpError(resp)
         ELSE IF resp.body.t = "empty" THEN Throws(SyntaxError)
         ELSE ReturnsData
    ELSE IF ~Successful(resp) THEN Rethrown(module, op, resp, TRUE)
         ELSE ReturnsData


\* ------------------------------------------------ booking facade: inputs
\* Longest bookings array of a /my-bookings response.
MaxBookings == 2

Quote == "\""
\* ["a\\b","httpc"], [1], 5, x[, [] as the text of the images field.
ImagesGood == Str(<<"[", Quote, "a", "\\", "\\", "b", Quote, ",",
                    Quote, "h", "t", "t", "p", "c", Quote, "]">>)
ImagesNumberEntry == Str(<<"[", "1", "]">>)
ImagesNotArray == Str(<<"5">>)
ImagesNotJSON == Str(<<"x", "[">>)
ImagesEmptyList == Str(<<"[", "]">>)
ImagesAsArray == Arr(<<Elem("string", <<"a">>)>>)

FeaturedImage == Str(<<"f", ".", "j", "p", "g">>)
UpperConfirmed == Str(<<"C", "O", "N", "F", "I", "R", "M", "E", "D">>)
MixedCancelled == Str(<<"C", "a", "n", "c", "e", "l", "l", "e", "d">>)
WeirdStatus == Str(<<"w", "e", "i", "r", "d", "-", "s", "t", "a", "t", "u", "s">>)
NumericStatus == Num(<<"1">>)

T1405 == <<"1", "4", ":", "0", "5">>
T140530 == <<"1", "4", ":", "0", "5", ":", "3", "0">>
T1505 == <<"1", "5", ":", "0", "5">>
SlotsGood == Slots(<<Slot(T140530, T1505)>>)

RawBookings ==
    { RawBooking(ImagesGood, FeaturedImage, UpperConfirmed, SlotsGood),
      RawBooking(Null, Undefined, Str(Confirmed), SlotsGood),
      RawBooking(Undefined, Undefined, Undefined, NoSlots),
      RawBooking(Str(<<>>), Undefined, MixedCancelled, Slots(<<>>)),
      RawBooking(ImagesNotJSON, Undefined, WeirdStatus, SlotsGood),
      RawBooking(ImagesNotArray, Undefined, Str(Pending), NoSlots),
      RawBooking(ImagesNumberEntry, Undefined, Str(Cancelled), SlotsGood),
      RawBooking(ImagesEmptyList, FeaturedImage, Str(<<>>),
                 Slots(<<Slot(<<>>, <<"9">>), Slot(T1405, T1505)>>)),
      RawBooking(ImagesAsArray, Undefined, UpperConfirmed, SlotsGood),
      RawBooking(ImagesGood, FeaturedImage, NumericStatus, SlotsGood) }

BookingLists == UNION {[1..n -> RawBookings] : n \in 0..MaxBookings}

RawByIds ==
    { RawById(UpperConfirmed, Str(<<"v", ".", "j", "p", "g">>), Undefined),
      RawById(WeirdStatus, Undefined, Str(<<"a", "\\", "b">>)),
      RawById(Undefined, Undefined, FeaturedImage),
      RawById(NumericStatus, Undefined, Undefined),
      RawById(MixedCancelled, Undefined, Num(<<"7">>)) }

ListBodies ==
    {EmptyBody, NullBody,
     ObjectBody(NoBookings, NoBooking, EmptyObject),
     ObjectBody(NullBookings, NoBooking, EmptyObject)}
    \cup {ObjectBody(Bookings(l), NoBooking, EmptyObject) : l \in BookingLists}

ByIdBodies ==
    {EmptyBody, NullBody,
     ObjectBody(NoBookings, NoBooking, EmptyObject),
     ObjectBody(NoBookings, NullBooking, EmptyObject)}
    \cup {ObjectBody(NoBookings, Booking(r), EmptyObject) : r \in RawByIds}
    \cup {ObjectBody(NoBookings, NoBooking, r) : r \in RawByIds}

\* Requests that fail: no response, or an error status with or without a
\* message field in the body.
BackendMessages == {<<"Slot already booked">>, <<"Unauthenticated.">>}
FailedResponses ==
    {Response(0, EmptyBody, NoText)}
    \cup {Response(st, EmptyBody, m) :
            st \in {401, 422, 500}, m \in BackendMessages \cup {NoText}}

\* The operations each module exports.
Operations(module) ==
    CASE module = "bookingApi" ->
            {"list", "getById", "create", "cancel", "paymentSuccess",
             "paymentFailure"}
      [] module = "part_001" ->
            {"list", "getById", "create", "cancel", "paymentSuccess"}
      [] OTHER -> {"list", "getById", "create"}

Bodies(op) ==
    CASE op = "list" -> ListBodies
      [] op = "getById" -> ByIdBodies
      [] OTHER -> {NullBody, ObjectBody(NoBookings, NoBooking, EmptyObject)}

\* Time texts: HH:MM, HH:MM:SS, a bare hour, digits followed by letters,
\* letters only, a signed number, a local date-time.
TimeTexts ==
    { T1405, T140530, <<"0", "9", ":", "3", "0", ":", "0", "0">>,
      <<"9">>, <<"1", "4">>, <<"-", "5">>, <<"9", "a", "b", "c">>,
      <<"1", "4", "h">>, <<"a", "b", "c">>, <<"n", "o", "o", "n">>, <<>>,
      <<"1", "4", ":", "5">>,
      <<"2", "0", "2", "4", "-", "0", "1", "-", "0", "1", "T",
        "1", "4", ":", "0", "5", ":", "0", "0">> }

\* new Date(text) is engine-defined for a text that begins with a number
\* and is not a date-time; the screen's formatTime is applied to the others.
EngineDefined(text) ==
    /\ ~IsHHMM(text) /\ ~IsHHMMSS(text) /\ ~IsLocalDateTime(text)
    /\ ~parseInt(text).nan

Exchanges(op) ==
    {Response(200, b, NoText) : b \in Bodies(op)} \cup FailedResponses

EndpointCalls(module) ==
    UNION {{[module |-> module, op |-> op, resp |-> r, text |-> NoText] :
               r \in Exchanges(op)} : op \in Operations(module)}

Calls ==
    UNION {EndpointCalls(m) : m \in Modules}
    \cup {[module |-> m, op |-> "formatTime",
           resp |-> Response(0, EmptyBody, NoText), text |-> t] :
            m \in {"bookingApi", "bookings.tsx"}, t \in TimeTexts}

\* ----------------------------------------------- booking facade: actions
\* bookingApi.getBookings() / bookingApi.getMyBookings() / getMyBookings()
GetBookings ==
    /\ call.op = "list" /\ result.kind = "pending"
    /\ result' = CASE call.module = "bookingApi" -> getBookings(call.resp)
                   [] call.module = "part_001" -> getMyBookings001(call.resp)
                   [] OTHER -> getMyBookings002(call.resp)
    /\ UNCHANGED <<call, sessionVars>>

\* bookingApi.getBookingById(id) / getBookingById(id)
GetBookingById ==
    /\ call.op = "getById" /\ result.kind = "pending"
    /\ result' = IF call.module = "bookingApi"
                 THEN getBookingById(call.resp)
                 ELSE PassThrough(call.module, call.op, call.resp)
    /\ UNCHANGED <<call, sessionVars>>

\* bookingApi.createBooking(data) / createBooking(data); bookingApi.ts reads
\* response.data.order inside the try block.
CreateBooking ==
    /\ call.op = "create" /\ result.kind = "pending"
    /\ result' = IF /\ call.module = "bookingApi"
                    /\ Successful(call.resp) /\ call.resp.body.t = "null"
                 THEN Rethrown(call.module, call.op, call.resp, FALSE)
                 ELSE PassThrough(call.module, call.op, call.resp)
    /\ UNCHANGED <<call, sessionVars>>

\* bookingApi.cancelBooking(id)
CancelBooking ==
    /\ call.op = "cancel" /\ result.kind = "pending"
    /\ result' = PassThrough(call.module, call.op, call.resp)
    /\ UNCHANGED <<call, sessionVars>>

\* bookingApi.paymentSuccess(data)
PaymentSuccess ==
    /\ call.op = "paymentSuccess" /\ result.kind = "pending"
    /\ result' = PassThrough(call.module, call.op, call.resp)
    /\ UNCHANGED <<call, sessionVars>>

\* bookingApi.paymentFailure(data)
PaymentFailure ==
    /\ call.op = "paymentFailure" /\ result.kind = "pending"
    /\ result' = PassThrough(call.module, call.op, call.resp)
    /\ UNCHANGED <<call, sessionVars>>

\* formatTime(timeString) of bookingApi.ts and of the bookings screen.
FormatTime ==
    /\ call.op = "formatTime" /\ result.kind = "pending"
    /\ ~(call.module = "bookings.tsx" /\ EngineDefined(call.text))
    /\ result' = ReturnsText(IF call.module = "bookingApi"
                             THEN formatTime(call.text)
                             ELSE formatTimeOnScreen(call.text))
    /\ UNCHANGED <<call, sessionVars>>

\* A signed-out provider at rest: the facade does not touch the session.
SessionAtRest ==
    /\ provider = "AuthContext"
    /\ user = None
    /\ loading = FALSE
    /\ store = [user |-> None, token |-> None]
    /\ timers = 0
    /\ rPc = "done" /\ rUser = None
    /\ lPc = "idle" /\ lArg = None
    /\ oPc = "idle"
    /\ uPc = "idle" /\ uArg = None /\ uNew = None
    /\ fPc = "idle" /\ fNew = None
    /\ hPc = "idle" /\ hModule = "none" /\ hAuth = FALSE
    /\ hist = [op |-> "none", arg |-> NoArg, phase |-> "returned",
               pre |-> [user |-> None, store |-> store, loading |-> FALSE],
               requested |-> FALSE, wrote |-> FALSE, fault |-> FALSE,
               fetchFailed |-> FALSE, fetched |-> None, status |-> 0,
               clean |-> TRUE]

FacadeInit ==
    /\ SessionAtRest
    /\ call \in Calls
    /\ result = NoResult

FacadeNext ==
    \/ GetBookings
    \/ GetBookingById
    \/ CreateBooking
    \/ CancelBooking
    \/ PaymentSuccess
    \/ PaymentFailure
    \/ FormatTime

\* One facade call on one exchange, or one formatTime application.
FacadeSpec == FacadeInit /\ [][FacadeNext]_vars

\* The call has returned or thrown.
Done(op) == call.op = op /\ result.kind # "pending"

\* ------------------------------------------------------------- properties
Finished(op) == hist.op = op /\ hist.phase # "running"
BothAbsent(st) == st.user = None /\ st.token = None
BothPresent(st) == st.user # None /\ st.token # None
ExactlyOne(st) == (st.user = None) # (st.token = None)

\* C1: whenever no operation is in flight (and no storage call has been
\* rejected), a session exists in memory and under the 'user' key if and only
\* if a token is stored under 'token'.
SessionIffToken ==
    (Quiescent /\ hist.clean) =>
        /\ (user # None) <=> (store.token # None)
        /\ (store.user # None) <=> (store.token # None)

\* C2: a Restore that started from storage holding exactly one of the two
\* keys, and whose storage calls all succeed, ends with no session in memory
\* and both keys removed.
RestorePartialClearsBoth ==
    (Finished("restore") /\ ExactlyOne(hist.pre.store) /\ hist.clean) =>
        (user = None /\ BothAbsent(store))

\* C3: when a request that carried the bearer token fails with a 401 and no
\* storage call is rejected, both keys have been removed by the time the
\* failure reaches the caller.
Http401ClearsBoth ==
    (Finished("http") /\ hist.status = 401 /\ hAuth /\ hist.clean) =>
        (hist.phase = "threw" /\ BothAbsent(store))

\* C4: a Logout that has returned leaves no session in memory and neither
\* key in storage, whatever the state it was called in.
LogoutClearsAll ==
    (Finished("logout") /\ hist.phase = "returned") =>
        (user = None /\ BothAbsent(store))

\* C5: when the storage write of Login fails, Login throws and the session
\* in memory and both stored keys are what they were when it was called.
LoginFailureLeavesState ==
    (Finished("login") /\ hist.fault) =>
        /\ hist.phase = "threw"
        /\ user = hist.pre.user
        /\ store = hist.pre.store

\* C5 witness: a Login of another session than the current one has failed.
LoginFailureSeen ==
    /\ Finished("login")
    /\ hist.phase = "threw"
    /\ hist.pre.user # None
    /\ hist.pre.user # hist.arg

\* C6: a Refresh whose profile fetch failed performs Logout: when it
\* returns, no session is in memory and both keys are removed; it fails to
\* return only when a storage removal of that Logout is rejected.
RefreshFailureLogsOut ==
    (Finished("refresh") /\ hist.fetchFailed) =>
        /\ hist.pre.store.token # None
        /\ hist.phase = "returned" => (user = None /\ BothAbsent(store))
        /\ hist.phase = "threw" => hist.fault

\* C6 witness: a Refresh called with a session has returned after its fetch
\* failed.
RefreshFailureSeen ==
    /\ Finished("refresh")
    /\ hist.fetchFailed
    /\ hist.phase = "returned"
    /\ hist.pre.user # None
    /\ hist.pre.store.user # None

\* C7: a Restore from storage holding a session and a token, whose storage
\* reads succeed, ends not loading with exactly the stored session in memory
\* and both keys as they were.
RestoreYieldsStoredSession ==
    (/\ Finished("restore")
     /\ BothPresent(hist.pre.store)
     /\ ~JSONparseThrows(hist.pre.store.user[1])
     /\ ~hist.fault) =>
        /\ hist.phase = "returned"
        /\ ~loading
        /\ user # None
        /\ user = Some(JSONparse(hist.pre.store.user[1]))
        /\ JSONstringify(user[1]) = hist.pre.store.user[1]
        /\ store = hist.pre.store

\* C7 witness: Restore has ended with the stored session of user b.
RestoreYieldedSession ==
    /\ Finished("restore")
    /\ ~hist.fault
    /\ BothPresent(hist.pre.store)
    /\ user = Some(UserB)
    /\ ~loading

\* C8: UpdateProfile called with no session in memory issues no backend
\* request, writes nothing to storage and leaves the session absent.
UpdateUnauthenticatedNoOp ==
    (hist.op = "update" /\ hist.pre.user = None /\ hist.clean) =>
        /\ ~hist.requested
        /\ ~hist.wrote
        /\ user = None
        /\ store = hist.pre.store

\* C9: after an UpdateProfile of a session has returned, every field the
\* update does not name has its former value in memory and under 'user'.
UpdateKeepsUntouchedFields ==
    (Finished("update") /\ hist.phase = "returned" /\ hist.pre.user # None) =>
        /\ user # None
        /\ store.user # None
        /\ \A k \in Keys :
             hist.arg[1][k] = Missing =>
                /\ user[1][k] = hist.pre.user[1][k]
                /\ JSONparse(store.user[1])[k] = hist.pre.user[1][k]

\* A Logout called with no session in memory and neither key stored, none
\* of whose storage calls is rejected.
LogoutFromSignedOut ==
    /\ Finished("logout")
    /\ ~hist.fault
    /\ hist.pre.user = None
    /\ BothAbsent(hist.pre.store)

RefreshNoOpOrReplace ==
    /\ (hist.op = "refresh" /\ hist.pre.store.token = None /\ ~hist.fault) =>
          /\ ~hist.requested
          /\ ~hist.wrote
          /\ user = hist.pre.user
          /\ store = hist.pre.store
    /\ (Finished("refresh") /\ hist.fetched # None /\ ~hist.fault) =>
          /\ hist.phase = "returned"
          /\ hist.pre.store.token # None
          /\ user = hist.fetched
          /\ store.user = Some(JSONstringify(hist.fetched[1]))
          /\ JSONparse(store.user[1]) = hist.fetched[1]
          /\ \A k \in Keys : hist.fetched[1][k] = Missing =>
                /\ user[1][k] = Missing
                /\ JSONparse(store.user[1])[k] = Missing
          /\ store.token = hist.pre.store.token

\* C11 witness: a Refresh of a session with a phone has returned with a
\* fetched profile that has none.
RefreshReplacedSession ==
    /\ Finished("refresh")
    /\ hist.phase = "returned"
    /\ hist.fetched # None
    /\ hist.pre.user # None
    /\ hist.pre.user[1].phone # Missing
    /\ hist.fetched[1].phone = Missing
    /\ user = hist.fetched

\* A Refresh called with a session in memory and no token stored returned.
RefreshWithoutTokenSeen ==
    /\ Finished("refresh")
    /\ hist.phase = "returned"
    /\ hist.pre.store.token = None
    /\ hist.pre.user # None


\* C12: every request a booking operation has dispatched carries the bearer
\* Authorization header if and only if a token was stored when it was
\* dispatched (no storage call having been rejected).
RequestCarriesStoredToken ==
    (hist.op = "http" /\ hist.requested /\ hist.clean) =>
        (hAuth <=> (hist.pre.store.token # None))


\* C13: Restore finishes, and whenever it has finished (both keys present,
\* a key missing, unparsable JSON, a rejected read, a rejected cleanup
\* removal) the loading flag is false.
RestoreEndsNotLoading ==
    /\ [](Finished("restore") => (rPc = "done" /\ ~loading))
    /\ <>(rPc = "done")

\* C13 witness: Restore has ended by a rejected cleanup removal.
RestoreEndedByFailedCleanup ==
    /\ Finished("restore")
    /\ hist.phase = "threw"
    /\ hist.fault
    /\ ~loading
    /\ store.user # None


\* --------------------------------------------- booking facade: properties
\* The raw bookings a successful list or by-id exchange carries, in order.
RawRecords ==
    IF call.op = "list"
    THEN IF call.resp.body.bookings.t = "array"
         THEN call.resp.body.bookings.a ELSE <<>>
    ELSE IF call.resp.body.booking.t = "object"
         THEN <<call.resp.body.booking.r>> ELSE <<call.resp.body.own>>

EnumeratedStatuses == {Pending, Confirmed, Cancelled}

\* The status the contract asks for: the lower-cased raw text when that is
\* one of the three values, pending otherwise.
ContractStatus(raw) ==
    IF raw.t = "string" /\ toLowerCase(raw.s) \in EnumeratedStatuses
    THEN Str(toLowerCase(raw.s))
    ELSE Str(Pending)

\* C14: every booking returned by getBookings or getBookingById of
\* src/api/bookingApi.ts has the status pending, confirmed or cancelled:
\* the lower-cased raw status when that is one of the three, pending for
\* every other raw value.
StatusIsEnumerated ==
    (/\ call.module = "bookingApi"
     /\ Done("list") \/ Done("getById")
     /\ result.kind = "returned") =>
        \A i \in 1..Len(result.value) :
            result.value[i].status = ContractStatus(RawRecords[i].status)


\* The backend supplied no image: images null, empty or undecodable (or an
\* empty list) and no facility_image.
NoImageSupplied(raw) ==
    /\ ~Truthy(raw.facility_image)
    /\ \/ ~Truthy(raw.images)
       \/ raw.images.t = "string" /\ JSONparseValueThrows(raw.images.s)
       \/ raw.images.t = "string" /\ JSONparseValue(raw.images.s) = Arr(<<>>)

\* C15: every booking returned by a list or by-id call of
\* src/api/bookingApi.ts or src/unnamed/part_001 has a non-empty image list,
\* and the list is exactly the stock fallback URL when the backend supplied
\* no image.
ImagesNeverEmpty ==
    (/\ call.module \in {"bookingApi", "part_001"}
     /\ Done("list") \/ Done("getById")
     /\ result.kind = "returned") =>
        \A i \in 1..Len(result.value) :
            /\ result.value[i].images.t = "array"
            /\ result.value[i].images.a # <<>>
            /\ (call.op = "list" /\ NoImageSupplied(RawRecords[i])) =>
                   result.value[i].images = StringElems(<<StockImage>>)


\* C16: for a successful /my-bookings response with a bookings array,
\* however malformed the fields of its bookings, the list call of
\* src/api/bookingApi.ts or src/unnamed/part_001 returns one booking per raw
\* booking and does not fail.
NormalisationIsTotal ==
    (/\ call.module \in {"bookingApi", "part_001"}
     /\ Done("list")
     /\ Successful(call.resp)
     /\ call.resp.body.t = "object"
     /\ call.resp.body.bookings.t = "array") =>
        /\ result.kind = "returned"
        /\ Len(result.value) = Len(call.resp.body.bookings.a)


\* A successful response that reports no bookings: no body, no bookings
\* field, or bookings equal to the empty list.
ReportsNoBookings(resp) ==
    /\ Successful(resp)
    /\ \/ resp.body.t = "empty"
       \/ /\ resp.body.t = "object"
          /\ resp.body.bookings \in {NoBookings, Bookings(<<>>)}

\* C17: the list call of src/api/bookingApi.ts or src/unnamed/part_002
\* returns the empty sequence, and does not fail, when the successful
\* response reports no bookings.
NoBookingsGivesEmptyList ==
    (/\ call.module \in {"bookingApi", "part_002"}
     /\ Done("list")
     /\ ReportsNoBookings(call.resp)) =>
        /\ result.kind = "returned"
        /\ result.value = <<>>


\* A successful response that holds no booking record: no body, null, or an
\* object without booking data.
HoldsNoRecord(resp) ==
    /\ Successful(resp)
    /\ \/ resp.body.t \in {"empty", "null"}
       \/ /\ resp.body.t = "object"
          /\ resp.body.booking.t # "object"
          /\ resp.body.own = EmptyObject

\* C18: getBookingById of src/api/bookingApi.ts or src/unnamed/part_001
\* fails with 'Booking not found' when the successful response holds no
\* booking record; it does not return a booking.
MissingRecordIsNotFound ==
    (/\ call.module \in {"bookingApi", "part_001"}
     /\ Done("getById")
     /\ HoldsNoRecord(call.resp)) =>
        /\ result.kind = "threw"
        /\ result.message = BookingNotFound


FacadeOperations ==
    {"list", "getById", "create", "cancel", "paymentSuccess", "paymentFailure"}

\* The error response carries a message.
CarriesMessage(resp) == resp.status # 0 /\ resp.message # NoText

\* C19: a facade operation whose request failed throws an error whose
\* message is the backend's message when the response carries one, and the
\* operation's fixed fallback message otherwise.
FailureMessageIsBackendOrFallback ==
    (/\ call.op \in FacadeOperations
     /\ result.kind # "pending"
     /\ ~Successful(call.resp)) =>
        /\ result.kind = "threw"
        /\ result.message = IF CarriesMessage(call.resp)
                            THEN call.resp.message
                            ELSE Fallback(call.module, call.op)


\* A text that is no time in any notation: it holds a lower-case letter.
NotATime(text) ==
    \E i \in 1..Len(text) : \E j \in 1..Len(LowerChars) : text[i] = LowerChars[j]

\* C20: formatTime of src/api/bookingApi.ts and of the bookings screen maps
\* HH:MM to itself, HH:MM:SS to its first five characters, and a text that
\* is no time to itself.
FormatTimeKeepsOrTruncates ==
    Done("formatTime") =>
        /\ IsHHMM(call.text) => result.text = call.text
        /\ IsHHMMSS(call.text) => result.text = SubSeq(call.text, 1, 5)
        /\ NotATime(call.text) => result.text = call.text


\* ------------------------------------------------- concurrency properties
\* C21: a response of refreshUser or updateUserProfile that arrives late is
\* still written: whenever the setItem after the response succeeds, the
\* fetched profile is persisted under 'user' and becomes the in-memory
\* session, the token key being left as it is, also after a logout has
\* completed in between.
LateResponseStillWrites ==
    [][/\ (fPc = "setItem" /\ fPc' = "idle") =>
              /\ user' = fNew
              /\ store' = SetItem(store, "user", JSONstringify(fNew[1]))
       /\ (uPc = "setItem" /\ uPc' = "idle" /\ hist'.phase = "returned") =>
              /\ user' = uNew
              /\ store' = SetItem(store, "user", JSONstringify(uNew[1]))]_vars

\* C21 witness: logout was called after refreshUser had sent its request and
\* completed before the response was stored; the session is the fetched
\* profile, persisted under 'user', and no token is persisted.
SessionWithoutTokenAfterRace ==
    /\ provider = "AuthContext"
    /\ hist.op = "logout"
    /\ hist.fetched # None
    /\ hist.clean
    /\ Quiescent
    /\ user = hist.fetched
    /\ store.user = Some(JSONstringify(hist.fetched[1]))
    /\ store.token = None


\* C22: whenever no session operation and no request is in flight, the
\* in-memory session equals the record persisted under 'user': both absent,
\* or both present and equal.
MemoryMirrorsStoredUser ==
    (Quiescent /\ hist.clean) =>
        \/ user = None /\ store.user = None
        \/ user # None /\ store.user = Some(JSONstringify(user[1]))


\* C23: the loading flag is true while a login or logout is in flight, also
\* when a delayed reset scheduled by an earlier login or logout fires during
\* it, and false once every operation and every pending reset is done
\* (the first half stated for runs in which no storage call is rejected).
LoadingCoversLoginAndLogout ==
    /\ (hist.clean /\ (lPc # "idle" \/ oPc # "idle")) => loading
    /\ (Quiescent /\ timers = 0) => ~loading

====
